---- MODULE Spec2Model ----
(***************************************************************************)
(* Verification model of five units of the repository:                     *)
(*   - ScreenOrientationScreen (apps/native-component-list)                *)
(*   - ABI32_0_0RNBranchProperty (property descriptor)                     *)
(*   - StyleSheet.compose / StyleSheet.setStyleAttributePreprocessor       *)
(*   - CollectionReference.add / CollectionReference.doc                   *)
(*   - PermissionsRequester.askForPermissions                              *)
(* Each unit has its own next-state relation and specification; the        *)
(* variables of the other units stay unchanged under it.                   *)
(***************************************************************************)
EXTENDS Integers, Sequences, FiniteSets, TLC

\* ------------------------------------------------------------------ bounds
\* orientation-change events the platform emits in one run
MaxEvents == 2
\* Objective-C objects allocated in one run
MaxObjects == 2
\* calls of setStyleAttributePreprocessor in one run
MaxSetCalls == 2
\* length of a documentPath string, in characters
MaxPathLen == 3
\* calls of CollectionReference.add in one run
MaxAdds == 2
\* DocumentReferences that doc() creates in one run
MaxRefs == 2
\* calls of PermissionsRequester.askForPermissions in one run
MaxAsks == 3

VARIABLES
  \* ScreenOrientationScreen
  lifecycle, state, listener, subscriptions, eventQueue, emitted, fetchPc,
  setStateLog, dispatched,
  \* ABI32_0_0RNBranchProperty
  objects, lastCall, nInitWithSetter, lastEq,
  \* StyleSheet
  lastCompose, ReactNativeStyleAttributes, styleObjects, console, lastSet, DEV,
  \* CollectionReference
  collectionPath, nDocumentRefs, lastDoc, adds,
  \* PermissionsRequester
  mPermissionManager, managerCalls, asks, listenerInvoked

screenVars == <<lifecycle, state, listener, subscriptions, eventQueue, emitted,
                fetchPc, setStateLog, dispatched>>
propVars == <<objects, lastCall, nInitWithSetter, lastEq>>
styleVars == <<lastCompose, ReactNativeStyleAttributes, styleObjects, console,
               lastSet, DEV>>
fireVars == <<collectionPath, nDocumentRefs, lastDoc, adds>>
permVars == <<mPermissionManager, managerCalls, asks, listenerInvoked>>
vars == <<screenVars, propVars, styleVars, fireVars, permVars>>
\* what each unit leaves alone
notScreen == <<propVars, styleVars, fireVars, permVars>>
notProp == <<screenVars, styleVars, fireVars, permVars>>
notStyle == <<screenVars, propVars, fireVars, permVars>>
notFire == <<screenVars, propVars, styleVars, permVars>>
notPerm == <<screenVars, propVars, styleVars, fireVars>>

\* ================================================================ screen
\* ScreenOrientationScreen: a React component that subscribes to orientation
\* changes when it mounts, fetches the current orientation and lock
\* asynchronously, and removes the subscription when it unmounts.

Orientations == {"PORTRAIT", "LANDSCAPE"}
OrientationLocks == {"DEFAULT", "PORTRAIT_UP"}

\* state = { orientation: undefined, orientationLock: undefined }
InitScreen ==
  /\ lifecycle = "constructed"
  /\ state = [orientation |-> "undefined", orientationLock |-> "undefined"]
  /\ listener = 0
  /\ subscriptions = {}
  /\ eventQueue = <<>>
  /\ emitted = 0
  /\ fetchPc = "idle"
  /\ setStateLog = <<>>
  /\ dispatched = <<>>

\* this.setState(update), called from `src`: React merges the update into the
\* state of a mounted component and ignores it on an unmounted one; the call
\* itself is recorded with the lifecycle it happened in.
setState(src, update) ==
  /\ setStateLog' = Append(setStateLog,
                           [src |-> src, afterUnmount |-> lifecycle = "unmounted"])
  /\ state' = IF lifecycle = "mounted" THEN update ELSE state

\* componentDidMount up to its await: the listener is registered and the
\* Promise.all of the two fetches is pending.
componentDidMount ==
  /\ lifecycle = "constructed"
  /\ lifecycle' = "mounted"
  /\ listener' = 1
  /\ subscriptions' = subscriptions \cup {1}
  /\ fetchPc' = "pending"
  /\ UNCHANGED <<state, eventQueue, emitted, setStateLog, dispatched>>
  /\ UNCHANGED notScreen

\* The continuation of componentDidMount after the await resolved.
\* getOrientationAsync().orientation is a property read on a promise, so the
\* first element of the Promise.all result is undefined.
FetchResolved ==
  /\ fetchPc = "pending"
  /\ \E lock \in OrientationLocks :
       setState("fetch", [orientation |-> "undefined", orientationLock |-> lock])
  /\ fetchPc' = "done"
  /\ UNCHANGED <<lifecycle, listener, subscriptions, eventQueue, emitted, dispatched>>
  /\ UNCHANGED notScreen

\* getOrientationLockAsync rejected: the await throws, no setState follows.
FetchRejected ==
  /\ fetchPc = "pending"
  /\ fetchPc' = "rejected"
  /\ UNCHANGED <<lifecycle, state, listener, subscriptions, eventQueue, emitted,
                 setStateLog, dispatched>>
  /\ UNCHANGED notScreen

\* subscription.remove(): the emitter forgets the subscription.
remove(sub) == subscriptions \ {sub}

\* a componentWillUnmount that forgets to remove the listener
componentWillUnmount_noRemove ==
  /\ lifecycle = "mounted"
  /\ lifecycle' = "unmounted"
  /\ UNCHANGED <<subscriptions, state, listener, eventQueue, emitted, fetchPc,
                 setStateLog, dispatched>>
  /\ UNCHANGED notScreen

componentWillUnmount ==
  /\ lifecycle = "mounted"
  /\ lifecycle' = "unmounted"
  /\ subscriptions' = IF listener # 0 THEN remove(listener) ELSE subscriptions
  /\ UNCHANGED <<state, listener, eventQueue, emitted, fetchPc, setStateLog,
                 dispatched>>
  /\ UNCHANGED notScreen

\* The platform reports an orientation change (a rotation, or the effect of
\* lock / lockPlatformExample / unlock); the event is queued for the
\* scripting thread.
OrientationChanged ==
  /\ emitted < MaxEvents
  /\ \E o \in Orientations, l \in OrientationLocks :
       eventQueue' = Append(eventQueue,
                            [orientationInfo |-> [orientation |-> o],
                             orientationLock |-> l])
  /\ emitted' = emitted + 1
  /\ UNCHANGED <<lifecycle, state, listener, subscriptions, fetchPc, setStateLog,
                 dispatched>>
  /\ UNCHANGED notScreen

\* The scripting thread dispatches the head of the queue to the listeners
\* subscribed at that moment; the listener of componentDidMount calls setState.
DispatchEvent ==
  /\ eventQueue # <<>>
  /\ eventQueue' = Tail(eventQueue)
  /\ dispatched' = Append(dispatched, lifecycle)
  /\ IF listener \in subscriptions
       THEN setState("listener",
                     [orientation |-> Head(eventQueue).orientationInfo.orientation,
                      orientationLock |-> Head(eventQueue).orientationLock])
       ELSE UNCHANGED <<state, setStateLog>>
  /\ UNCHANGED <<lifecycle, listener, subscriptions, emitted, fetchPc>>
  /\ UNCHANGED notScreen

NextScreen ==
  \/ componentDidMount
  \/ FetchResolved
  \/ FetchRejected
  \/ componentWillUnmount
  \/ OrientationChanged
  \/ DispatchEvent

\* C1: no orientation-change event dispatched after componentWillUnmount
\* removed the subscription reaches the listener: the listener never calls
\* setState after the unmount.
C1_NoListenerAfterRemove ==
  \A i \in 1..Len(setStateLog) :
    setStateLog[i].src = "listener" => ~setStateLog[i].afterUnmount

\* an event was dispatched after the unmount, and one had been delivered to
\* the listener before it
C1_Witness ==
  /\ \E i \in 1..Len(dispatched) : dispatched[i] = "unmounted"
  /\ \E i \in 1..Len(setStateLog) : setStateLog[i].src = "listener"

\* C9: no setState happens after componentWillUnmount has run, the one that
\* follows the fetch of componentDidMount included.
C9_NoSetStateAfterUnmount ==
  \A i \in 1..Len(setStateLog) : ~setStateLog[i].afterUnmount

\* ============================================================== property
\* ABI32_0_0RNBranchProperty: a descriptor holding a setter selector and the
\* class of the values the setter takes.  Objects live in `objects`; a
\* reference is an index into it, and 0 is nil.

nil == 0
Selectors == {"setTitle:", "setKeywords:"}
Types == {"NSString", "NSArray"}

\* the superclass of each class the model allocates
superclass(cls) ==
  CASE cls = "ABI32_0_0RNBranchProperty" -> "NSObject"
    [] cls = "NSString" -> "NSObject"
    [] OTHER -> "Nil"

RECURSIVE inherits(_, _)
inherits(cls, ancestor) ==
  IF cls = "Nil" THEN FALSE
  ELSE IF cls = ancestor THEN TRUE
  ELSE inherits(superclass(cls), ancestor)

\* [object isKindOfClass:cls]; a message to nil answers NO
isKindOfClass(object, cls) ==
  IF object = nil THEN FALSE ELSE inherits(objects[object].cls, cls)

InitProp ==
  /\ objects = <<>>
  /\ lastCall = [kind |-> "none", setter |-> "NULL", type |-> "Nil",
                 outcome |-> "none", result |-> nil]
  /\ nInitWithSetter = 0
  /\ lastEq = [called |-> FALSE, self |-> nil, object |-> nil, result |-> FALSE]

\* -initWithSetterSelector:type: the object it returns ([super init] is
\* NSObject's, which returns self)
initWithSetterSelector(selector, type) ==
  [cls |-> "ABI32_0_0RNBranchProperty", setterSelector |-> selector, type |-> type]

\* +propertyWithSetterSelector:type:
propertyWithSetterSelector ==
  /\ Len(objects) < MaxObjects
  /\ \E selector \in Selectors, type \in Types :
       /\ objects' = Append(objects, initWithSetterSelector(selector, type))
       /\ lastCall' = [kind |-> "initWithSetterSelector", setter |-> selector,
                       type |-> type, outcome |-> "returned",
                       result |-> Len(objects) + 1]
  /\ nInitWithSetter' = nInitWithSetter + 1
  /\ UNCHANGED lastEq
  /\ UNCHANGED notProp

\* an -init that returns a descriptor with nothing bound
init_returnsSelf ==
  [raised |-> FALSE,
   self |-> [cls |-> "ABI32_0_0RNBranchProperty", setterSelector |-> "NULL",
             type |-> "Nil"]]

\* -init: @throw nil
init ==
  [raised |-> TRUE,
   self |-> [cls |-> "Nil", setterSelector |-> "NULL", type |-> "Nil"]]

\* [[ABI32_0_0RNBranchProperty alloc] init], or +new
DefaultInit ==
  /\ init.raised \/ Len(objects) < MaxObjects
  /\ IF init.raised
       THEN /\ objects' = objects
            /\ lastCall' = [kind |-> "init", setter |-> "NULL", type |-> "Nil",
                            outcome |-> "raised", result |-> nil]
       ELSE /\ objects' = Append(objects, init.self)
            /\ lastCall' = [kind |-> "init", setter |-> "NULL", type |-> "Nil",
                            outcome |-> "returned", result |-> Len(objects) + 1]
  /\ UNCHANGED <<nInitWithSetter, lastEq>>
  /\ UNCHANGED notProp

\* an object of another class, as a caller may hand to -isEqual:
AllocOther ==
  /\ Len(objects) < MaxObjects
  /\ objects' = Append(objects,
                       [cls |-> "NSString", setterSelector |-> "NULL", type |-> "Nil"])
  /\ UNCHANGED <<lastCall, nInitWithSetter, lastEq>>
  /\ UNCHANGED notProp

\* an -isEqual: that is NSObject's: identity
isEqual_identity(self, object) == self = object

\* -isEqual:
isEqual(self, object) ==
  IF ~isKindOfClass(object, objects[self].cls) THEN FALSE
  ELSE /\ objects[self].setterSelector = objects[object].setterSelector
       /\ objects[self].type = objects[object].type

Descriptors == {r \in 1..Len(objects) : objects[r].cls = "ABI32_0_0RNBranchProperty"}

\* [a isEqual:x] for a descriptor a and any object x, nil included
IsEqualCall ==
  /\ \E a \in Descriptors, x \in 0..Len(objects) :
       lastEq' = [called |-> TRUE, self |-> a, object |-> x, result |-> isEqual(a, x)]
  /\ UNCHANGED <<objects, lastCall, nInitWithSetter>>
  /\ UNCHANGED notProp

NextProp ==
  \/ propertyWithSetterSelector
  \/ DefaultInit
  \/ AllocOther
  \/ IsEqualCall

\* C2: -isEqual: answers YES exactly when the argument is a descriptor with
\* the same setter selector and the same type as the receiver, the same
\* instance or not, and NO for nil and for an object of any other class.
C2_EqualBySetterAndType ==
  lastEq.called =>
    (lastEq.result <=>
       /\ lastEq.object \in Descriptors
       /\ objects[lastEq.object].setterSelector = objects[lastEq.self].setterSelector
       /\ objects[lastEq.object].type = objects[lastEq.self].type)

\* two distinct instances compared equal
C2_Witness ==
  /\ lastEq.called
  /\ lastEq.self # lastEq.object
  /\ lastEq.result

\* C3: -init always raises and yields no object; every descriptor comes from
\* -initWithSetterSelector:type: and holds exactly the selector and the type
\* passed in.
C3_InitRaises ==
  /\ lastCall.kind = "init" => lastCall.outcome = "raised" /\ lastCall.result = nil
  /\ lastCall.kind = "initWithSetterSelector" =>
       /\ lastCall.outcome = "returned"
       /\ lastCall.result \in Descriptors
       /\ objects[lastCall.result].setterSelector = lastCall.setter
       /\ objects[lastCall.result].type = lastCall.type
  /\ Cardinality(Descriptors) = nInitWithSetter
  /\ \A r \in Descriptors :
       objects[r].setterSelector \in Selectors /\ objects[r].type \in Types

\* -init was called after a descriptor had been built
C3_Witness ==
  /\ lastCall.kind = "init"
  /\ nInitWithSetter > 0

\* ================================================================= style
\* StyleSheet.compose and StyleSheet.setStyleAttributePreprocessor.

\* Style values: null, undefined, false, '', two style objects, two
\* registered style ids and two arrays of styles.  Objects and arrays are references.
StyleValues ==
  {"null", "undefined", "false", "emptyString", "objA", "objB", "id1", "id2",
   "arrC", "arrD"}

\* JavaScript's ToBoolean on a style value
Falsy(v) == v \in {"null", "undefined", "false", "emptyString"}

\* v != null (loose inequality: false for null and for undefined only)
notNull(v) == v \notin {"null", "undefined"}

\* compose(style1, style2): what it returns, and whether it is a new array
compose(style1, style2) ==
  IF notNull(style1) /\ notNull(style2)
    THEN [allocated |-> TRUE, value |-> "newArray", items |-> <<style1, style2>>]
    ELSE [allocated |-> FALSE,
          value |-> IF notNull(style1) THEN style1 ELSE style2,
          items |-> <<>>]

ComposeCall ==
  /\ \E style1 \in StyleValues, style2 \in StyleValues :
       lastCompose' = [called |-> TRUE, style1 |-> style1, style2 |-> style2,
                       result |-> compose(style1, style2)]
  /\ UNCHANGED <<ReactNativeStyleAttributes, styleObjects, console, lastSet, DEV>>
  /\ UNCHANGED notStyle

\* The style-attribute registry: each property name maps to a string (a
\* plain attribute), to an object with optional diff and process fields, or
\* to nothing.  color and backgroundColor share one object.
StyleProps ==
  {"width", "transform", "shadowOffset", "color", "backgroundColor", "notAStyle"}
Processors == {"f", "g"}

stringEntry == [kind |-> "string", ref |-> 0]
undefinedEntry == [kind |-> "undefined", ref |-> 0]
objectEntry(r) == [kind |-> "object", ref |-> r]

InitStyle ==
  /\ lastCompose = [called |-> FALSE, style1 |-> "null", style2 |-> "null",
                    result |-> [allocated |-> FALSE, value |-> "null", items |-> <<>>]]
  /\ styleObjects = << [diff |-> "none", process |-> "processTransform"],
                       [diff |-> "sizesDiffer", process |-> "none"],
                       [diff |-> "none", process |-> "processColor"] >>
  /\ ReactNativeStyleAttributes =
       [p \in StyleProps |->
          CASE p = "width" -> stringEntry
            [] p = "transform" -> objectEntry(1)
            [] p = "shadowOffset" -> objectEntry(2)
            [] p \in {"color", "backgroundColor"} -> objectEntry(3)
            [] OTHER -> undefinedEntry]
  /\ console = <<>>
  /\ lastSet = [called |-> FALSE, property |-> "width", process |-> "f",
                attrs |-> ReactNativeStyleAttributes, objs |-> styleObjects,
                console |-> console]
  /\ DEV \in BOOLEAN

\* a setStyleAttributePreprocessor that sets process on the object it found
setStyleAttributePreprocessor_inPlace(property, process) ==
  LET entry == ReactNativeStyleAttributes[property] IN
  IF entry.kind = "object"
    THEN [attrs |-> ReactNativeStyleAttributes,
          objs |-> [styleObjects EXCEPT ![entry.ref].process = process],
          console |-> console]
  ELSE IF entry.kind = "string"
    THEN [attrs |-> [ReactNativeStyleAttributes EXCEPT
                       ![property] = objectEntry(Len(styleObjects) + 1)],
          objs |-> Append(styleObjects, [diff |-> "none", process |-> process]),
          console |-> console]
  ELSE [attrs |-> ReactNativeStyleAttributes, objs |-> styleObjects,
        console |-> Append(console, [level |-> "error", property |-> property])]

\* setStyleAttributePreprocessor(property, process): the registry, the
\* objects and the console after the call
setStyleAttributePreprocessor(property, process) ==
  LET entry == ReactNativeStyleAttributes[property]
      \* let value: {} for a string entry, the entry itself for an object
      value == IF entry.kind = "string"
                 THEN [diff |-> "none", process |-> "none"]
                 ELSE styleObjects[entry.ref]
  IN
  IF entry.kind \notin {"string", "object"}
    THEN [attrs |-> ReactNativeStyleAttributes, objs |-> styleObjects,
          console |-> Append(console, [level |-> "error", property |-> property])]
    ELSE [attrs |-> [ReactNativeStyleAttributes EXCEPT
                       ![property] = objectEntry(Len(styleObjects) + 1)],
          \* {...value, process}
          objs |-> Append(styleObjects, [value EXCEPT !.process = process]),
          console |-> IF DEV /\ value.process # "none"
                        THEN Append(console, [level |-> "warn", property |-> property])
                        ELSE console]

\* calls made so far: each added an object or reported an error
nSetCalls ==
  (Len(styleObjects) - 3)
    + Cardinality({i \in 1..Len(console) : console[i].level = "error"})

SetPreprocessorCall ==
  /\ nSetCalls < MaxSetCalls
  /\ \E property \in StyleProps, process \in Processors :
       LET after == setStyleAttributePreprocessor(property, process) IN
       /\ ReactNativeStyleAttributes' = after.attrs
       /\ styleObjects' = after.objs
       /\ console' = after.console
       /\ lastSet' = [called |-> TRUE, property |-> property, process |-> process,
                      attrs |-> ReactNativeStyleAttributes, objs |-> styleObjects,
                      console |-> console]
  /\ UNCHANGED <<lastCompose, DEV>>
  /\ UNCHANGED notStyle

NextCompose == ComposeCall

NextStyleAttributes == SetPreprocessorCall

\* C4: compose returns the other style, with no array allocated, when either
\* style is falsy, and a new array [style1, style2] only when both are
\* non-falsy.
C4_ComposeFalsy ==
  lastCompose.called =>
    LET s1 == lastCompose.style1
        s2 == lastCompose.style2
        r == lastCompose.result
    IN IF Falsy(s1) \/ Falsy(s2)
         THEN /\ ~r.allocated
              /\ r.value = IF Falsy(s1) THEN s2 ELSE s1
         ELSE /\ r.allocated
              /\ r.items = <<s1, s2>>

\* the fields of the object a registry entry refers to (none for a string)
fieldsOf(attrs, objs, p) ==
  IF attrs[p].kind = "object" THEN objs[attrs[p].ref]
  ELSE [diff |-> "none", process |-> "none"]

\* C8: setStyleAttributePreprocessor on an invalid property leaves the
\* registry unchanged and reports an error; on a valid one the entry becomes
\* an object with the given process and the previous entry's other fields,
\* and every other property's entry is as before.
C8_SetPreprocessorFrame ==
  lastSet.called =>
    LET p == lastSet.property
        prev == lastSet.attrs[p]
    IN IF prev.kind \notin {"string", "object"}
         THEN /\ ReactNativeStyleAttributes = lastSet.attrs
              /\ styleObjects = lastSet.objs
              /\ console = Append(lastSet.console,
                                  [level |-> "error", property |-> p])
         ELSE /\ ReactNativeStyleAttributes[p].kind = "object"
              /\ fieldsOf(ReactNativeStyleAttributes, styleObjects, p).process
                   = lastSet.process
              /\ fieldsOf(ReactNativeStyleAttributes, styleObjects, p).diff
                   = fieldsOf(lastSet.attrs, lastSet.objs, p).diff
              /\ \A q \in StyleProps \ {p} :
                   /\ ReactNativeStyleAttributes[q] = lastSet.attrs[q]
                   /\ fieldsOf(ReactNativeStyleAttributes, styleObjects, q)
                        = fieldsOf(lastSet.attrs, lastSet.objs, q)
              /\ \A i \in 1..Len(console) :
                   i > Len(lastSet.console) => console[i].level # "error"

\* a preprocessor was set on a property whose object another property shares
C8_Witness ==
  /\ lastSet.called
  /\ lastSet.attrs[lastSet.property].kind = "object"
  /\ \E q \in StyleProps \ {lastSet.property} :
       lastSet.attrs[q] = lastSet.attrs[lastSet.property]

\* ============================================================= firestore
\* CollectionReference.doc and CollectionReference.add.  A string is a
\* sequence of characters; a path is a sequence of segments (strings).

Chars == {"a", "b", "/"}
Strings == UNION {[1..n -> Chars] : n \in 0..MaxPathLen}
\* ids that firestoreAutoId() may return: alphanumeric, never with a slash
AutoIds == {<<"x">>, <<"y">>}
Data == {"d1", "d2"}

\* the collection paths a CollectionReference is built on: Firestore.collection
\* and DocumentReference.collection only build one on an odd number of segments
CollectionPaths == { << <<"a">> >>, << <<"a">>, <<"a">>, <<"a">> >> }

\* childPath.split('/')
RECURSIVE split(_)
split(str) ==
  IF \A i \in 1..Len(str) : str[i] # "/" THEN <<str>>
  ELSE LET i == CHOOSE k \in 1..Len(str) :
                  str[k] = "/" /\ \A j \in 1..(k - 1) : str[j] # "/"
       IN <<SubSeq(str, 1, i - 1)>> \o split(SubSeq(str, i + 1, Len(str)))

\* Path.child(childPath)
child(path, childPath) == path \o split(childPath)

\* Path.isDocument
isDocument(path) == Len(path) > 0 /\ Len(path) % 2 = 0

InitFire ==
  /\ collectionPath \in CollectionPaths
  /\ nDocumentRefs = 0
  /\ lastDoc = [called |-> FALSE, documentPath |-> [given |-> FALSE, str |-> <<>>],
                threw |-> FALSE, message |-> "", path |-> <<>>, refsBefore |-> 0]
  /\ adds = <<>>

\* a doc() without the invariant
doc_noInvariant(documentPath, autoId) ==
  LET newPath == IF documentPath.given /\ documentPath.str # <<>>
                   THEN documentPath.str ELSE autoId
  IN [threw |-> FALSE, message |-> "", path |-> child(collectionPath, newPath)]

\* doc(documentPath), with autoId the id firestoreAutoId() would return
doc(documentPath, autoId) ==
  LET \* documentPath || firestoreAutoId()
      newPath == IF documentPath.given /\ documentPath.str # <<>>
                   THEN documentPath.str ELSE autoId
      path == child(collectionPath, newPath)
  IN IF ~isDocument(path)
       THEN [threw |-> TRUE,
             message |-> "Argument \"documentPath\" must point to a document.",
             path |-> <<>>]
       ELSE [threw |-> FALSE, message |-> "", path |-> path]

DocCall ==
  /\ nDocumentRefs < MaxRefs
  /\ \E given \in BOOLEAN, str \in Strings, autoId \in AutoIds :
       /\ given \/ str = <<>>
       /\ LET documentPath == [given |-> given, str |-> str]
              r == doc(documentPath, autoId)
          IN /\ lastDoc' = [called |-> TRUE, documentPath |-> documentPath,
                            threw |-> r.threw, message |-> r.message,
                            path |-> r.path, refsBefore |-> nDocumentRefs]
             /\ nDocumentRefs' = IF r.threw THEN nDocumentRefs ELSE nDocumentRefs + 1
  /\ UNCHANGED <<collectionPath, adds>>
  /\ UNCHANGED notFire

\* an add() that does not chain on set(): return Promise.resolve(documentRef)
add_noWait ==
  /\ Len(adds) < MaxAdds
  /\ \E data \in Data, autoId \in AutoIds :
       LET r == doc([given |-> FALSE, str |-> <<>>], autoId) IN
       /\ adds' = Append(adds,
                         [documentRef |-> r.path, data |-> data, threw |-> r.threw,
                          setCalls |-> 1, setPromise |-> "pending",
                          addPromise |-> "resolved", value |-> r.path,
                          settled |-> 1])
       /\ nDocumentRefs' = nDocumentRefs + 1
  /\ UNCHANGED <<collectionPath, lastDoc>>
  /\ UNCHANGED notFire

\* add(data) up to its return: doc() makes the reference, set(data) is called
\* on it once, and the promise returned is the one chained on set's.
add ==
  /\ Len(adds) < MaxAdds
  /\ \E data \in Data, autoId \in AutoIds :
       LET r == doc([given |-> FALSE, str |-> <<>>], autoId) IN
       /\ adds' = Append(adds,
                         [documentRef |-> r.path, data |-> data, threw |-> r.threw,
                          setCalls |-> IF r.threw THEN 0 ELSE 1,
                          setPromise |-> "pending", addPromise |-> "pending",
                          value |-> <<>>, settled |-> 0])
       /\ nDocumentRefs' = IF r.threw THEN nDocumentRefs ELSE nDocumentRefs + 1
  /\ UNCHANGED <<collectionPath, lastDoc>>
  /\ UNCHANGED notFire

\* the promise of documentRef.set(data) resolves
SetResolves(i) ==
  /\ i <= Len(adds)
  /\ adds[i].setCalls > 0 /\ adds[i].setPromise = "pending"
  /\ adds' = [adds EXCEPT ![i].setPromise = "resolved"]
  /\ UNCHANGED <<collectionPath, nDocumentRefs, lastDoc>>
  /\ UNCHANGED notFire

\* the promise of documentRef.set(data) rejects
SetRejects(i) ==
  /\ i <= Len(adds)
  /\ adds[i].setCalls > 0 /\ adds[i].setPromise = "pending"
  /\ adds' = [adds EXCEPT ![i].setPromise = "rejected"]
  /\ UNCHANGED <<collectionPath, nDocumentRefs, lastDoc>>
  /\ UNCHANGED notFire

\* the reaction of .then(() => Promise.resolve(documentRef)) runs: on a
\* resolved set the callback's value settles add's promise, on a rejected
\* one the rejection passes through.
ThenReaction(i) ==
  /\ i <= Len(adds)
  /\ adds[i].setPromise # "pending" /\ adds[i].addPromise = "pending"
  /\ adds' = [adds EXCEPT
                ![i].addPromise = adds[i].setPromise,
                ![i].value = IF adds[i].setPromise = "resolved"
                               THEN adds[i].documentRef ELSE <<>>,
                ![i].settled = adds[i].settled + 1]
  /\ UNCHANGED <<collectionPath, nDocumentRefs, lastDoc>>
  /\ UNCHANGED notFire

NextDoc == DocCall

NextAdd ==
  \/ add
  \/ \E i \in 1..MaxAdds : SetResolves(i)
  \/ \E i \in 1..MaxAdds : SetRejects(i)
  \/ \E i \in 1..MaxAdds : ThenReaction(i)

\* str.join('/') of a sequence of segments
RECURSIVE join(_)
join(segments) ==
  IF Len(segments) = 0 THEN <<>>
  ELSE IF Len(segments) = 1 THEN segments[1]
  ELSE segments[1] \o <<"/">> \o join(Tail(segments))

slashes(str) == Cardinality({i \in 1..Len(str) : str[i] = "/"})

\* C5 (state part): set is called once per add; add's promise settles at most
\* once; it resolves only after set resolved, and with the reference doc()
\* returned; when set rejected it rejects and delivers no reference.
C5_AddState ==
  \A i \in 1..Len(adds) :
    LET r == adds[i] IN
    /\ r.setCalls = 1
    /\ r.settled <= 1
    /\ r.settled = 1 <=> r.addPromise # "pending"
    /\ r.addPromise = "resolved" =>
         r.setPromise = "resolved" /\ r.value = r.documentRef /\ isDocument(r.value)
    /\ r.addPromise = "rejected" => r.setPromise = "rejected" /\ r.value = <<>>
    /\ r.setPromise = "rejected" => r.addPromise # "resolved"

\* C5: add completes exactly once with the reference or with the error: the
\* state part always holds, and once set's promise has settled add's promise
\* settles.
C5_AddCompletesOnce ==
  /\ []C5_AddState
  /\ \A i \in 1..MaxAdds :
       (i <= Len(adds) /\ adds[i].setPromise # "pending")
         ~> (i <= Len(adds) /\ adds[i].addPromise # "pending")

\* one add resolved with its reference and another one rejected
C5_Witness ==
  /\ \E i \in 1..Len(adds) : adds[i].addPromise = "resolved"
  /\ \E i \in 1..Len(adds) : adds[i].addPromise = "rejected"

\* C7: doc() uses an auto-generated id as the single child segment when
\* documentPath is omitted or empty; it returns a reference exactly when the
\* child path has an even number of segments, and otherwise fails with the
\* invariant's message and creates no reference.
C7_DocPointsToDocument ==
  lastDoc.called =>
    LET arg == lastDoc.documentPath
        omitted == ~arg.given \/ arg.str = <<>>
        nChild == IF omitted THEN 1 ELSE slashes(arg.str) + 1
        tail == SubSeq(lastDoc.path, Len(collectionPath) + 1, Len(lastDoc.path))
    IN IF (Len(collectionPath) + nChild) % 2 = 0
         THEN /\ ~lastDoc.threw
              /\ SubSeq(lastDoc.path, 1, Len(collectionPath)) = collectionPath
              /\ Len(tail) = nChild
              /\ IF omitted THEN tail[1] \in AutoIds ELSE join(tail) = arg.str
              /\ nDocumentRefs = lastDoc.refsBefore + 1
         ELSE /\ lastDoc.threw
              /\ lastDoc.message = "Argument \"documentPath\" must point to a document."
              /\ nDocumentRefs = lastDoc.refsBefore

\* doc() was called with a path of two segments and failed
C7_Witness ==
  /\ lastDoc.called
  /\ lastDoc.threw
  /\ slashes(lastDoc.documentPath.str) = 1


\* =========================================================== permissions
\* PermissionsRequester: forwards a request to the PermissionsManager the
\* module registry gave it at construction, if it gave one.

PERMISSIONS_REQUEST == 13
PermissionLists == {<<"CAMERA">>, <<"CAMERA", "LOCATION">>}
Listeners == {"listenerA", "listenerB"}

\* the constructor: moduleRegistry.getModule(PermissionsManager.class) is the
\* registered manager, or null
InitPerm ==
  /\ mPermissionManager \in {"null", "manager"}
  /\ managerCalls = <<>>
  /\ asks = <<>>
  /\ listenerInvoked = <<>>

\* an askForPermissions that answers true whatever the manager is
askForPermissions_alwaysTrue(permissions, permissionsListener) ==
  [returned |-> TRUE,
   calls |-> IF mPermissionManager # "null"
               THEN <<[permissions |-> permissions,
                       requestCode |-> PERMISSIONS_REQUEST,
                       listener |-> permissionsListener]>>
               ELSE <<>>]

\* askForPermissions(permissions, permissionsListener): what it returns and the calls it
\* makes on the manager
askForPermissions(permissions, permissionsListener) ==
  IF mPermissionManager # "null"
    THEN [returned |-> TRUE,
          calls |-> <<[permissions |-> permissions,
                       requestCode |-> PERMISSIONS_REQUEST,
                       listener |-> permissionsListener]>>]
    ELSE [returned |-> FALSE, calls |-> <<>>]

AskCall ==
  /\ Len(asks) < MaxAsks
  /\ \E permissions \in PermissionLists, permissionsListener \in Listeners :
       LET r == askForPermissions(permissions, permissionsListener) IN
       /\ asks' = Append(asks, [permissions |-> permissions, listener |-> permissionsListener,
                                returned |-> r.returned])
       /\ managerCalls' = managerCalls \o r.calls
  /\ UNCHANGED <<mPermissionManager, listenerInvoked>>
  /\ UNCHANGED notPerm

\* the manager answers a request it received: it invokes the request's
\* listener, once per request, in any order
ManagerAnswers(i) ==
  /\ i <= Len(managerCalls)
  /\ \A j \in 1..Len(listenerInvoked) : listenerInvoked[j].request # i
  /\ listenerInvoked' = Append(listenerInvoked,
                               [request |-> i, listener |-> managerCalls[i].listener])
  /\ UNCHANGED <<mPermissionManager, managerCalls, asks>>
  /\ UNCHANGED notPerm

NextPerm ==
  \/ AskCall
  \/ \E i \in 1..MaxAsks : ManagerAnswers(i)

\* C6: askForPermissions returns true exactly when a manager was resolved,
\* and then forwards each request once with request code 13; with no manager
\* it returns false, calls no manager and no listener is ever invoked.
C6_AskForwardsOnce ==
  /\ \A i \in 1..Len(asks) : asks[i].returned <=> mPermissionManager # "null"
  /\ IF mPermissionManager # "null"
       THEN /\ Len(managerCalls) = Len(asks)
            /\ \A i \in 1..Len(asks) :
                 /\ managerCalls[i].permissions = asks[i].permissions
                 /\ managerCalls[i].requestCode = 13
                 /\ managerCalls[i].listener = asks[i].listener
       ELSE /\ managerCalls = <<>>
            /\ listenerInvoked = <<>>

\* two requests were made with no manager resolved
C6_Witness ==
  /\ mPermissionManager = "null"
  /\ Len(asks) = 2

\* ======================================================== specifications
\* the fixed construction each unit has while another unit runs
IdleStyle == InitStyle /\ DEV = TRUE
IdleFire == InitFire /\ collectionPath = << <<"a">> >>
IdlePerm == InitPerm /\ mPermissionManager = "null"

Init == InitScreen /\ InitProp /\ InitStyle /\ InitFire /\ InitPerm
Next ==
  NextScreen \/ NextProp \/ NextCompose \/ NextStyleAttributes \/ NextDoc
    \/ NextAdd \/ NextPerm
Spec == Init /\ [][Next]_vars

StartScreen == InitScreen /\ InitProp /\ IdleStyle /\ IdleFire /\ IdlePerm
SpecScreen == StartScreen /\ [][NextScreen]_vars

StartProp == InitScreen /\ InitProp /\ IdleStyle /\ IdleFire /\ IdlePerm
SpecProp == StartProp /\ [][NextProp]_vars

StartStyle == InitScreen /\ InitProp /\ InitStyle /\ IdleFire /\ IdlePerm
SpecCompose == StartStyle /\ [][NextCompose]_vars
SpecStyleAttributes == StartStyle /\ [][NextStyleAttributes]_vars

StartFire == InitScreen /\ InitProp /\ IdleStyle /\ InitFire /\ IdlePerm
SpecDoc == StartFire /\ [][NextDoc]_vars
\* a reaction of a settled promise is a job the event loop always runs
SpecAdd ==
  /\ StartFire
  /\ [][NextAdd]_vars
  /\ \A i \in 1..MaxAdds : WF_vars(ThenReaction(i))

StartPerm == InitScreen /\ InitProp /\ IdleStyle /\ IdleFire /\ InitPerm
SpecPerm == StartPerm /\ [][NextPerm]_vars

====
